---- MODULE Spec2Model ----
(***************************************************************************)
(* Model of src/main.py: the MCP session lifecycle (main and               *)
(* initialize_mcp_client), the JSON-schema to pydantic translation         *)
(* (create_pydantic_model_from_schema), the catalog builder                *)
(* (create_langchain_tools_from_mcp) and the adapters it returns           *)
(* (tool_func, the coroutine, and the lambda given as func).               *)
(*                                                                         *)
(* Python str values are TLA+ strings; a dict of keyword arguments is a    *)
(* set of <<key, value>> pairs; a list is a sequence.                      *)
(***************************************************************************)
EXTENDS Integers, Sequences, FiniteSets, TLC

\* ------------------------------------------------------------------ bounds
MaxTools == 2        \* descriptors in one list_tools() answer
MaxContent == 2      \* content items in one call_tool() answer
MaxProps == 2        \* declared properties in one input schema
MaxRequired == 2     \* entries of one schema's "required" list

\* ------------------------------------------------------------ input domains
FieldNames == {"keyword", "limit", "offset"}

\* Values of a property's "type" key; "uuid" stands for any value the code
\* does not recognise and "<absent>" for a property without a "type" key.
DeclaredTypes ==
  {"string", "integer", "number", "boolean", "array", "object", "uuid", "<absent>"}

RECURSIVE SeqsUpTo(_, _)
SeqsUpTo(S, n) ==
  IF n = 0 THEN {<<>>}
  ELSE LET shorter == SeqsUpTo(S, n - 1)
       IN  shorter \cup {Append(s, x) : s \in {t \in shorter : Len(t) = n - 1}, x \in S}

Range(s) == {s[i] : i \in 1..Len(s)}

Distinct(s) == \A i, j \in 1..Len(s) : i # j => s[i] # s[j]

PropertyDecls == [name : FieldNames, type : DeclaredTypes]

\* The keys of a dict are distinct: properties.items() yields each name once.
PropertyLists ==
  {ps \in SeqsUpTo(PropertyDecls, MaxProps) :
     \A i, j \in 1..Len(ps) : i # j => ps[i].name # ps[j].name}

RequiredLists == {r \in SeqsUpTo(FieldNames, MaxRequired) : Distinct(r)}

\* An input schema as create_pydantic_model_from_schema receives it:
\*   "None"          the value None
\*   "{}"            the empty dict (also what line 136 substitutes)
\*   "no_properties" a non-empty dict without a "properties" key
\*   "object"        a dict with a "properties" key
Schemas ==
  {[form |-> f, properties |-> <<>>, required |-> <<>>] : f \in {"None", "{}"}}
  \cup {[form |-> "no_properties", properties |-> <<>>, required |-> r] :
          r \in RequiredLists}
  \cup {[form |-> "object", properties |-> ps, required |-> r] :
          ps \in PropertyLists, r \in RequiredLists}

NoSchema == [form |-> "None", properties |-> <<>>, required |-> <<>>]

\* The schema of the "search-bugs" scenario: keyword required, limit optional.
ScenarioSchema ==
  [form |-> "object",
   properties |-> <<[name |-> "keyword", type |-> "string"],
                    [name |-> "limit", type |-> "integer"]>>,
   required |-> <<"keyword">>]

\* The descriptors of the listing, one per operation name; has_inputSchema is
\* hasattr(mcp_tool, 'inputSchema').  A listing may hold a descriptor twice.
\* The two names differ only in the separator, so they collide after the
\* '-' -> '_' normalisation of line 139.
Descriptors ==
  {[name |-> "get-case", has_inputSchema |-> FALSE, inputSchema |-> NoSchema],
   [name |-> "get_case", has_inputSchema |-> TRUE, inputSchema |-> ScenarioSchema]}

Listings == SeqsUpTo(Descriptors, MaxTools)

\* Keyword arguments a caller passes to an adapter.
ArgMaps == {{}, {<<"keyword", "crash">>}}

\* Content items of a CallToolResult.  An item of type "resource" carries its
\* resource contents, whose uri is a pydantic AnyUrl object.
ContentItems ==
  {[type |-> "text", payload |-> "3 bugs found"],
   [type |-> "text", payload |-> "ok"],
   [type |-> "image", payload |-> "aGk="],
   [type |-> "resource", payload |-> "log"]}

Contents == SeqsUpTo(ContentItems, MaxContent)

ErrorMessages == {"timeout", "Connection closed"}

\* What awaiting tool_session.call_tool(...) can do.
Outcomes ==
  {[kind |-> "ok", content |-> c, message |-> ""] : c \in Contents}
  \cup {[kind |-> "error", content |-> <<>>, message |-> m] : m \in ErrorMessages}
  \cup {[kind |-> "cancel", content |-> <<>>, message |-> ""]}

\* ------------------------------------------------------- Python str helpers
Lower == "abcdefghijklmnopqrstuvwxyz"
Upper == "ABCDEFGHIJKLMNOPQRSTUVWXYZ"

CharAt(s, i) == SubSeq(s, i, i)

IsLower(c) == \E k \in 1..Len(Lower) : CharAt(Lower, k) = c
IsUpper(c) == \E k \in 1..Len(Upper) : CharAt(Upper, k) = c
IsCased(c) == IsLower(c) \/ IsUpper(c)

ToUpper(c) ==
  IF IsLower(c) THEN CharAt(Upper, CHOOSE k \in 1..Len(Lower) : CharAt(Lower, k) = c)
  ELSE c

ToLower(c) ==
  IF IsUpper(c) THEN CharAt(Lower, CHOOSE k \in 1..Len(Upper) : CharAt(Upper, k) = c)
  ELSE c

\* s.replace('-', '_')
RECURSIVE str_replace(_)
str_replace(s) ==
  IF Len(s) = 0 THEN ""
  ELSE (IF CharAt(s, 1) = "-" THEN "_" ELSE CharAt(s, 1))
       \o str_replace(SubSeq(s, 2, Len(s)))

\* s.title(): a cased character is upper-cased after an uncased one (or at the
\* start) and lower-cased after a cased one.
RECURSIVE TitleFrom(_, _)
TitleFrom(s, prev_cased) ==
  IF Len(s) = 0 THEN ""
  ELSE LET c == CharAt(s, 1)
       IN  (IF prev_cased THEN ToLower(c) ELSE ToUpper(c))
           \o TitleFrom(SubSeq(s, 2, Len(s)), IsCased(c))

str_title(s) == TitleFrom(s, FALSE)

\* f"{mcp_tool.name.replace('-', '_').title()}Input"
ModelName(name) == str_title(str_replace(name)) \o "Input"

\* ---------------------------------------- create_pydantic_model_from_schema
\* FieldType with the "number" branch giving int (float lost).
FieldType_number_as_int(declared) ==
  CASE declared = "integer" -> "int"
    [] declared = "number" -> "int"
    [] declared = "boolean" -> "bool"
    [] declared = "array" -> "List[Any]"
    [] declared = "object" -> "Dict[str, Any]"
    [] OTHER -> "str"

\* The if/elif chain on field_info.get("type"); str is the default.
FieldType(declared) ==
  CASE declared = "integer" -> "int"
    [] declared = "number" -> "float"
    [] declared = "boolean" -> "bool"
    [] declared = "array" -> "List[Any]"
    [] declared = "object" -> "Dict[str, Any]"
    [] OTHER -> "str"

\* FieldDefault without the `if field_name in required` branch.
FieldDefault_always_none(field_name, required) == "None"

\* Field(description=...) has no default; Field(default=None, ...) has None.
FieldDefault(field_name, required) ==
  IF field_name \in Range(required) THEN "PydanticUndefined" ELSE "None"

\* One entry of the fields dict.  A pydantic field is required exactly when it
\* has no default.
MakeField(decl, required) ==
  LET d == FieldDefault(decl.name, required)
  IN  [name |-> decl.name,
       kind |-> FieldType(decl.type),
       default |-> d,
       is_required |-> (d = "PydanticUndefined")]

create_pydantic_model_from_schema(schema, model_name) ==
  IF schema.form \in {"None", "{}", "no_properties"}
  THEN [name |-> model_name, fields |-> <<>>]
  ELSE [name |-> model_name,
        fields |-> [k \in 1..Len(schema.properties) |->
                      MakeField(schema.properties[k], schema.required)]]

\* ------------------------------------------------------------------ tool_func
\* c.model_dump(): the item's fields as Python values.  The dump of a resource
\* item keeps the AnyUrl object of its uri; every other value is a str.
model_dump(c) ==
  [type |-> c.type,
   key |-> (CASE c.type = "text" -> "text"
              [] c.type = "image" -> "data"
              [] OTHER -> "resource"),
   value |-> c.payload,
   url_object |-> (c.type = "resource")]

Quoted(s) == "\"" \o s \o "\""

\* One dict of the list, as json.dumps(..., indent=2) lays it out.
JsonObject(d) ==
  "  {\n    " \o Quoted("type") \o ": " \o Quoted(d.type) \o ",\n    "
  \o Quoted(d.key) \o ": " \o Quoted(d.value) \o "\n  }"

RECURSIVE JsonJoin(_)
JsonJoin(ds) ==
  IF Len(ds) = 0 THEN ""
  ELSE IF Len(ds) = 1 THEN JsonObject(ds[1])
  ELSE JsonObject(ds[1]) \o ",\n" \o JsonJoin(Tail(ds))

\* json.dumps(objs, indent=2), called without default=: a value that is not a
\* JSON type raises TypeError.
json_dumps(ds) ==
  IF \E k \in 1..Len(ds) : ds[k].url_object
  THEN [raises |-> "TypeError",
        message |-> "Object of type AnyUrl is not JSON serializable",
        value |-> ""]
  ELSE [raises |-> "none",
        message |-> "",
        value |-> IF Len(ds) = 0 THEN "[]" ELSE "[\n" \o JsonJoin(ds) \o "\n]"]

\* The body of the try block after call_tool returned result.
ExtractContent(content) ==
  IF Len(content) > 0
  THEN IF \E k \in 1..Len(content) : content[k].type = "text"
       THEN LET first == CHOOSE k \in 1..Len(content) :
                           /\ content[k].type = "text"
                           /\ \A j \in 1..(k - 1) : content[j].type # "text"
            IN  [raises |-> "none", message |-> "", value |-> content[first].payload]
       ELSE json_dumps([k \in 1..Len(content) |-> model_dump(content[k])])
  ELSE [raises |-> "none", message |-> "", value |-> "No response from tool"]

\* except Exception as e: return f"Error executing tool: {str(e)}"
ErrorText(message) == "Error executing tool: " \o message

\* tool_func without the try/except: the error of call_tool leaves it.
tool_func_no_except(tool_name, kwargs, outcome) ==
  LET call == [name |-> tool_name, arguments |-> kwargs]
      body == ExtractContent(outcome.content)
  IN  CASE outcome.kind = "cancel" ->
             [calls |-> <<call>>, returns |-> "", raises |-> "CancelledError"]
        [] outcome.kind = "error" ->
             [calls |-> <<call>>, returns |-> "", raises |-> "Exception"]
        [] OTHER ->
             IF body.raises = "none"
             THEN [calls |-> <<call>>, returns |-> body.value, raises |-> "none"]
             ELSE [calls |-> <<call>>, returns |-> "", raises |-> body.raises]

\* One run of tool_func(**kwargs) in the closure that holds tool_name, when the
\* awaited call_tool does `outcome`.  calls: the session calls issued; returns:
\* the returned str; raises: what leaves tool_func ("none" if it returned).
\* asyncio.CancelledError is a BaseException, which `except Exception` lets by.
tool_func(tool_name, kwargs, outcome) ==
  LET call == [name |-> tool_name, arguments |-> kwargs]
      body == ExtractContent(outcome.content)
  IN  CASE outcome.kind = "cancel" ->
             [calls |-> <<call>>, returns |-> "", raises |-> "CancelledError"]
        [] outcome.kind = "error" ->
             [calls |-> <<call>>, returns |-> ErrorText(outcome.message),
              raises |-> "none"]
        [] OTHER ->
             IF body.raises = "none"
             THEN [calls |-> <<call>>, returns |-> body.value, raises |-> "none"]
             ELSE [calls |-> <<call>>, returns |-> ErrorText(body.message),
                   raises |-> "none"]

\* func=lambda *args, **kwargs: asyncio.run(tool_func(**kwargs)).  The lambda
\* is created in the loop body of create_langchain_tools_from_mcp and reads that
\* function's local variable tool_func when it is called: current_tool_name is
\* the tool name held by the closure the variable refers to at that time.
\* asyncio.run raises RuntimeError when the calling thread runs an event loop.
func(current_tool_name, kwargs, outcome, in_loop) ==
  IF in_loop
  THEN [calls |-> <<>>, returns |-> "", raises |-> "RuntimeError"]
  ELSE tool_func(current_tool_name, kwargs, outcome)

\* ------------------------------------------- create_langchain_tools_from_mcp
\* make_tool_func(mcp_tool.name, session): the closure keeps its own tool_name.
make_tool_func(tool_name) == [tool_name |-> tool_name]

\* StructuredTool named by the normalised name used for the model name.
StructuredTool_normalised_name(mcp_tool) ==
  LET input_schema == IF mcp_tool.has_inputSchema
                      THEN mcp_tool.inputSchema
                      ELSE [form |-> "{}", properties |-> <<>>, required |-> <<>>]
  IN  [name |-> str_replace(mcp_tool.name),
       coroutine |-> make_tool_func(mcp_tool.name),
       args_schema |-> create_pydantic_model_from_schema(
                         input_schema, ModelName(mcp_tool.name))]

\* One iteration of the loop: the StructuredTool built for mcp_tool.
StructuredTool(mcp_tool) ==
  LET input_schema == IF mcp_tool.has_inputSchema
                      THEN mcp_tool.inputSchema
                      ELSE [form |-> "{}", properties |-> <<>>, required |-> <<>>]
  IN  [name |-> mcp_tool.name,
       coroutine |-> make_tool_func(mcp_tool.name),
       args_schema |-> create_pydantic_model_from_schema(
                         input_schema, ModelName(mcp_tool.name))]

\* The loop with tool_func reading the loop variable instead of its own
\* tool_name: every coroutine ends up bound to the last descriptor.
create_langchain_tools_late_bound(tools) ==
  [langchain_tools |->
     [k \in 1..Len(tools) |->
        [name |-> tools[k].name,
         coroutine |-> make_tool_func(tools[Len(tools)].name),
         args_schema |-> StructuredTool(tools[k]).args_schema]],
   tool_func |-> IF Len(tools) = 0
                 THEN [tool_name |-> "<unbound>"]
                 ELSE make_tool_func(tools[Len(tools)].name)]

\* The loop over tools_list.tools.  langchain_tools: the returned list, in
\* listing order.  tool_func: what the local variable tool_func refers to when
\* the loop ends (the closure of the last iteration; "<unbound>" if the loop
\* body never ran), which is what every func lambda reads afterwards.
create_langchain_tools_from_mcp(tools) ==
  [langchain_tools |-> [k \in 1..Len(tools) |-> StructuredTool(tools[k])],
   tool_func |-> IF Len(tools) = 0
                 THEN [tool_name |-> "<unbound>"]
                 ELSE make_tool_func(tools[Len(tools)].name)]

\* ---------------------------------------------------------------------- state
VARIABLES
  entry,           \* the function of the module that was called
  pc,              \* where control is in it
  transport,       \* the streamablehttp_client context: "none", "open", "closed"
  session,         \* the ClientSession: "none", "open", "initialized", "closed"
  leaving,         \* how control is leaving the with-blocks: "none" (falling
                   \* through), "return", or the exception in flight
  tools_list,      \* tools_list.tools, the answer of session.list_tools()
  langchain_tools, \* the list create_langchain_tools_from_mcp returned
  tool_func_var,   \* the local variable tool_func the func lambdas read
  last,            \* the latest adapter invocation and what it did
  schema,          \* argument of a direct create_pydantic_model_from_schema call
  model            \* what that call returned

vars == <<entry, pc, transport, session, leaving, tools_list, langchain_tools,
          tool_func_var, last, schema, model>>

Failures == {"Exception", "KeyboardInterrupt", "CancelledError"}

NoOutcome == [kind |-> "none", content |-> <<>>, message |-> ""]

\* status: "none" (no invocation yet), "awaiting" (the invocation was started
\* and has not come back) or "done".
NoInvocation ==
  [status |-> "none", entry_point |-> "none", adapter |-> 0, kwargs |-> {},
   in_loop |-> FALSE, outcome |-> NoOutcome, calls |-> <<>>, returns |-> "",
   raises |-> "none"]

NoModel == [name |-> "", fields |-> <<>>]

\* What an awaited session request can do, given the state of the session: a
\* session that is not ready (never initialized, or already closed) fails it.
CallToolOutcomes(sess) ==
  IF sess = "initialized" THEN Outcomes
  ELSE {o \in Outcomes : o.kind = "error" /\ o.message = "Connection closed"}

\* Leave for a session opened without `async with` and closed only at the end
\* of the block: an exception skips both __aexit__ steps.
Leave_no_cleanup_on_error(block, how) ==
  IF how \in {"Exception", "KeyboardInterrupt", "CancelledError"}
  THEN "except"
  ELSE IF block = "session_body" THEN "exit_session" ELSE "exit_transport"

\* Where control goes when it leaves the body of a with-block, whether by
\* falling through, by return or by an exception: to that block's __aexit__.
Leave(block, how) ==
  IF block = "session_body" THEN "exit_session" ELSE "exit_transport"

Init ==
  /\ entry \in {"main", "initialize_mcp_client", "create_pydantic_model_from_schema"}
  /\ pc = IF entry = "create_pydantic_model_from_schema" THEN "call" ELSE "connect"
  /\ transport = "none"
  /\ session = "none"
  /\ leaving = "none"
  /\ tools_list = <<>>
  /\ langchain_tools = <<>>
  /\ tool_func_var = [tool_name |-> "<unbound>"]
  /\ last = NoInvocation
  /\ schema \in IF entry = "create_pydantic_model_from_schema"
                THEN Schemas ELSE {NoSchema}
  /\ model = NoModel

\* ----------------------------------------------------------------------- main
\* async with streamablehttp_client(...) as (read, write, get_session_id):
Connect ==
  /\ entry = "main" /\ pc = "connect"
  /\ \/ /\ transport' = "open"
        /\ pc' = "enter_session"
        /\ UNCHANGED leaving
     \/ \E e \in Failures :
          /\ leaving' = e
          /\ pc' = "except"
          /\ UNCHANGED transport
  /\ UNCHANGED <<entry, session, tools_list, langchain_tools, tool_func_var,
                 last, schema, model>>

\* async with ClientSession(read, write) as session:
EnterSession ==
  /\ entry = "main" /\ pc = "enter_session"
  /\ \/ /\ session' = "open"
        /\ pc' = "initialize"
        /\ UNCHANGED leaving
     \/ \E e \in Failures :
          /\ leaving' = e
          /\ pc' = Leave("transport_body", e)
          /\ UNCHANGED session
  /\ UNCHANGED <<entry, transport, tools_list, langchain_tools, tool_func_var,
                 last, schema, model>>

\* await session.initialize()
Initialize ==
  /\ entry = "main" /\ pc = "initialize"
  /\ \/ /\ session' = "initialized"
        /\ pc' = "create_tools"
        /\ UNCHANGED leaving
     \/ \E e \in Failures :
          /\ leaving' = e
          /\ pc' = Leave("session_body", e)
          /\ UNCHANGED session
  /\ UNCHANGED <<entry, transport, tools_list, langchain_tools, tool_func_var,
                 last, schema, model>>

\* cisco_tools = await create_langchain_tools_from_mcp(session): list_tools()
\* answers with a listing and the loop builds the catalog, or list_tools()
\* fails and the exception propagates.
CreateTools ==
  /\ entry = "main" /\ pc = "create_tools"
  /\ \/ /\ session = "initialized"
        /\ \E l \in Listings :
             LET built == create_langchain_tools_from_mcp(l)
             IN  /\ tools_list' = l
                 /\ langchain_tools' = built.langchain_tools
                 /\ tool_func_var' = built.tool_func
        /\ pc' = "agent"
        /\ UNCHANGED leaving
     \/ \E e \in Failures :
          /\ leaving' = e
          /\ pc' = Leave("session_body", e)
          /\ UNCHANGED <<tools_list, langchain_tools, tool_func_var>>
  /\ UNCHANGED <<entry, transport, session, last, schema, model>>

\* While agent.ainvoke(...) runs and no adapter invocation is under way, the
\* agent calls the coroutine of an adapter with some keyword arguments.
InvokeCoroutine ==
  /\ entry = "main" /\ pc = "agent" /\ last.status # "awaiting"
  /\ \E i \in 1..Len(langchain_tools), kwargs \in ArgMaps :
       last' = [status |-> "awaiting", entry_point |-> "coroutine", adapter |-> i,
                kwargs |-> kwargs, in_loop |-> TRUE, outcome |-> NoOutcome,
                calls |-> <<>>, returns |-> "", raises |-> "none"]
  /\ UNCHANGED <<entry, pc, transport, session, leaving, tools_list,
                 langchain_tools, tool_func_var, schema, model>>

\* ... or the blocking func of an adapter, from the event-loop thread
\* (in_loop) or from a thread that runs no event loop.
InvokeFunc ==
  /\ entry = "main" /\ pc = "agent" /\ last.status # "awaiting"
  /\ \E i \in 1..Len(langchain_tools), kwargs \in ArgMaps, in_loop \in BOOLEAN :
       last' = [status |-> "awaiting", entry_point |-> "func", adapter |-> i,
                kwargs |-> kwargs, in_loop |-> in_loop, outcome |-> NoOutcome,
                calls |-> <<>>, returns |-> "", raises |-> "none"]
  /\ UNCHANGED <<entry, pc, transport, session, leaving, tools_list,
                 langchain_tools, tool_func_var, schema, model>>

\* The invocation under way runs to its end: the coroutine runs tool_func in
\* the adapter's own closure, func runs the lambda, which reads tool_func_var;
\* the session answers the call_tool they issue with `outcome` (no call is
\* issued, hence no outcome, when asyncio.run refuses to start).
InvocationEnds ==
  /\ entry = "main" /\ pc = "agent" /\ last.status = "awaiting"
  /\ \E outcome \in IF last.entry_point = "func" /\ last.in_loop
                    THEN {NoOutcome} ELSE CallToolOutcomes(session) :
       LET r == IF last.entry_point = "coroutine"
                THEN tool_func(langchain_tools[last.adapter].coroutine.tool_name,
                               last.kwargs, outcome)
                ELSE func(tool_func_var.tool_name, last.kwargs, outcome,
                          last.in_loop)
       IN  last' = [last EXCEPT !.status = "done", !.outcome = outcome,
                                !.calls = r.calls, !.returns = r.returns,
                                !.raises = r.raises]
  /\ UNCHANGED <<entry, pc, transport, session, leaving, tools_list,
                 langchain_tools, tool_func_var, schema, model>>

\* result = await agent.ainvoke(...) returns once no invocation is under way,
\* or raises (an error, an interrupt or a cancellation can come at any time).
AgentReturn ==
  /\ entry = "main" /\ pc = "agent"
  /\ \E how \in {"none"} \cup Failures :
       /\ how = "none" => last.status # "awaiting"
       /\ leaving' = how
       /\ pc' = Leave("session_body", how)
  /\ UNCHANGED <<entry, transport, session, tools_list, langchain_tools,
                 tool_func_var, last, schema, model>>

\* ClientSession.__aexit__ of line 174.
ExitSession ==
  /\ entry = "main" /\ pc = "exit_session"
  /\ session' = "closed"
  /\ pc' = Leave("transport_body", leaving)
  /\ UNCHANGED <<entry, transport, leaving, tools_list, langchain_tools,
                 tool_func_var, last, schema, model>>

\* streamablehttp_client's __aexit__ of line 173.
ExitTransport ==
  /\ entry = "main" /\ pc = "exit_transport"
  /\ transport' = "closed"
  /\ pc' = "except"
  /\ UNCHANGED <<entry, session, leaving, tools_list, langchain_tools,
                 tool_func_var, last, schema, model>>

\* The end of the try statement: KeyboardInterrupt and Exception are handled,
\* a CancelledError matches neither clause and leaves main().
Except ==
  /\ entry = "main" /\ pc = "except"
  /\ pc' = IF leaving = "CancelledError" THEN "raised" ELSE "done"
  /\ UNCHANGED <<entry, transport, session, leaving, tools_list, langchain_tools,
                 tool_func_var, last, schema, model>>

\* ------------------------------------------------------ initialize_mcp_client
\* async with streamablehttp_client(server_url, headers=headers) as (read, write):
imc_Connect ==
  /\ entry = "initialize_mcp_client" /\ pc = "connect"
  /\ \/ /\ transport' = "open"
        /\ pc' = "enter_session"
        /\ UNCHANGED leaving
     \/ \E e \in Failures :
          /\ leaving' = e
          /\ pc' = "raised"
          /\ UNCHANGED transport
  /\ UNCHANGED <<entry, session, tools_list, langchain_tools, tool_func_var,
                 last, schema, model>>

\* async with ClientSession(read, write) as session:
imc_EnterSession ==
  /\ entry = "initialize_mcp_client" /\ pc = "enter_session"
  /\ \/ /\ session' = "open"
        /\ pc' = "initialize"
        /\ UNCHANGED leaving
     \/ \E e \in Failures :
          /\ leaving' = e
          /\ pc' = Leave("transport_body", e)
          /\ UNCHANGED session
  /\ UNCHANGED <<entry, transport, tools_list, langchain_tools, tool_func_var,
                 last, schema, model>>

\* await session.initialize(); return session -- the return statement is inside
\* both with-blocks, so control leaves them on its way to the caller.
imc_InitializeAndReturn ==
  /\ entry = "initialize_mcp_client" /\ pc = "initialize"
  /\ \/ /\ session' = "initialized"
        /\ leaving' = "return"
        /\ pc' = Leave("session_body", "return")
     \/ \E e \in Failures :
          /\ leaving' = e
          /\ pc' = Leave("session_body", e)
          /\ UNCHANGED session
  /\ UNCHANGED <<entry, transport, tools_list, langchain_tools, tool_func_var,
                 last, schema, model>>

\* ClientSession.__aexit__ of line 48.
imc_ExitSession ==
  /\ entry = "initialize_mcp_client" /\ pc = "exit_session"
  /\ session' = "closed"
  /\ pc' = Leave("transport_body", leaving)
  /\ UNCHANGED <<entry, transport, leaving, tools_list, langchain_tools,
                 tool_func_var, last, schema, model>>

\* streamablehttp_client's __aexit__ of line 47; then the caller has the
\* returned session ("returned") or the exception ("raised").
imc_ExitTransport ==
  /\ entry = "initialize_mcp_client" /\ pc = "exit_transport"
  /\ transport' = "closed"
  /\ pc' = IF leaving = "return" THEN "returned" ELSE "raised"
  /\ UNCHANGED <<entry, session, leaving, tools_list, langchain_tools,
                 tool_func_var, last, schema, model>>

\* --------------------------------------- create_pydantic_model_from_schema
\* A direct call with the schema drawn in Init.
Translate ==
  /\ entry = "create_pydantic_model_from_schema" /\ pc = "call"
  /\ model' = create_pydantic_model_from_schema(schema, "Model")
  /\ pc' = "returned"
  /\ UNCHANGED <<entry, transport, session, leaving, tools_list, langchain_tools,
                 tool_func_var, last, schema>>

\* ------------------------------------------------------------ specification
Next ==
  \/ Connect
  \/ EnterSession
  \/ Initialize
  \/ CreateTools
  \/ InvokeCoroutine
  \/ InvokeFunc
  \/ InvocationEnds
  \/ AgentReturn
  \/ ExitSession
  \/ ExitTransport
  \/ Except
  \/ imc_Connect
  \/ imc_EnterSession
  \/ imc_InitializeAndReturn
  \/ imc_ExitSession
  \/ imc_ExitTransport
  \/ Translate

Spec == Init /\ [][Next]_vars

\* The event loop runs every step that is ready, and agent.ainvoke comes back
\* (by returning or raising) instead of calling tools for ever.  Nothing
\* obliges the session to answer a call_tool, so InvocationEnds is not fair.
Fairness ==
  /\ WF_vars(Connect) /\ WF_vars(EnterSession) /\ WF_vars(Initialize)
  /\ WF_vars(CreateTools) /\ WF_vars(AgentReturn)
  /\ WF_vars(ExitSession) /\ WF_vars(ExitTransport) /\ WF_vars(Except)
  /\ WF_vars(imc_Connect) /\ WF_vars(imc_EnterSession)
  /\ WF_vars(imc_InitializeAndReturn)
  /\ WF_vars(imc_ExitSession) /\ WF_vars(imc_ExitTransport)

FairSpec == Spec /\ Fairness

\* ------------------------------------------------------------------- claims
Invoked == last.status = "done"

TheCall(name, kwargs) == <<[name |-> name, arguments |-> kwargs]>>

Names(seq) == [k \in 1..Len(seq) |-> seq[k].name]

Translated == entry = "create_pydantic_model_from_schema" /\ pc = "returned"

Declared == {schema.properties[k].name : k \in 1..Len(schema.properties)}

\* C1: an invocation whose session call raised an error with message m does
\* not raise; it returns "Error executing tool: " followed by m.
C1_ErrorReturnedAsText ==
  (Invoked /\ last.calls # <<>> /\ last.outcome.kind = "error")
    => /\ last.raises = "none"
       /\ last.returns = "Error executing tool: " \o last.outcome.message

C1_Witness ==
  /\ Invoked
  /\ last.entry_point = "coroutine"
  /\ last.outcome.kind = "error"
  /\ last.outcome.message = "timeout"
  /\ last.returns = "Error executing tool: timeout"

\* C2: the blocking entry point (func) of an adapter, called by a blocking
\* caller (a thread that runs no event loop, which asyncio.run requires), does
\* what the adapter's coroutine does: one session call under the adapter's own
\* name with the same arguments, the same returned string, and nothing raised
\* that the coroutine would not raise.
C2_BlockingSameAsAsync ==
  (Invoked /\ last.entry_point = "func" /\ ~last.in_loop)
    => LET a == langchain_tools[last.adapter]
           async == tool_func(a.coroutine.tool_name, last.kwargs, last.outcome)
       IN  /\ last.calls = TheCall(a.name, last.kwargs)
           /\ last.returns = async.returns
           /\ last.raises = async.raises

\* The payloads occur in s one after the other, in this order, from position i.
RECURSIVE ContainsInOrder(_, _, _)
ContainsInOrder(s, i, payloads) ==
  \/ Len(payloads) = 0
  \/ LET p == Head(payloads)
     IN  \E j \in i..(Len(s) - Len(p) + 1) :
           /\ SubSeq(s, j, j + Len(p) - 1) = p
           /\ ContainsInOrder(s, j + Len(p), Tail(payloads))

\* C3: after a successful session call with content C the adapter returns the
\* text of the first "text" item if there is one; otherwise, if C is not
\* empty, a serialization holding the data of every item of C in order;
\* otherwise "No response from tool".
C3_ResultMatchesReference ==
  (Invoked /\ last.outcome.kind = "ok")
    => LET C == last.outcome.content
           texts == {k \in 1..Len(C) : C[k].type = "text"}
       IN  /\ last.raises = "none"
           /\ IF texts # {}
              THEN last.returns = C[CHOOSE k \in texts : \A j \in texts : k <= j].payload
              ELSE IF Len(C) > 0
              THEN /\ SubSeq(last.returns, 1, 1) = "["
                   /\ ContainsInOrder(last.returns, 1,
                                      [k \in 1..Len(C) |-> C[k].payload])
              ELSE last.returns = "No response from tool"

\* C4: a listing of N descriptors gives N adapters, the adapter at position i
\* has the name of descriptor i, and its coroutine calls the session with
\* that descriptor's name.
C4_CatalogMirrorsListing ==
  /\ Len(langchain_tools) = Len(tools_list)
  /\ Names(langchain_tools) = Names(tools_list)
  /\ (Invoked /\ last.entry_point = "coroutine")
       => /\ Len(last.calls) = 1
          /\ last.calls[1].name = tools_list[last.adapter].name

C4_Witness ==
  /\ Len(tools_list) = 2
  /\ tools_list[1].name # tools_list[2].name
  /\ Invoked
  /\ last.entry_point = "coroutine"
  /\ last.adapter = 1
  /\ last.calls[1].name = tools_list[1].name

\* C5: the session initialize_mcp_client returns is initialized and still open
\* (and so is its transport) when the caller receives it.
C5_SessionOpenWhenReceived ==
  (entry = "initialize_mcp_client" /\ pc = "returned")
    => session = "initialized" /\ transport = "open"

\* C6: every run that opened the transport or the session closes it again,
\* whichever way the run ends (normal end, handshake or listing failure, agent
\* error, cancellation or interrupt), and no run has ended with one still open.
C6_TeardownOnEveryExit ==
  /\ [](pc \in {"done", "raised", "returned"}
          => transport # "open" /\ session \notin {"open", "initialized"})
  /\ (transport = "open") ~> (transport = "closed")
  /\ (session \in {"open", "initialized"}) ~> (session = "closed")

C6_Witness ==
  /\ entry = "main" /\ pc = "done"
  /\ leaving = "Exception"
  /\ Len(langchain_tools) > 0
  /\ transport = "closed" /\ session = "closed"

\* C7 as stated: every name in `required` is a field of the contract, required
\* and without default; every other declared property is optional with
\* default None.
C7_EveryRequiredNameIsField ==
  Translated
    => /\ \A r \in Range(schema.required) :
            \E k \in 1..Len(model.fields) :
              /\ model.fields[k].name = r
              /\ model.fields[k].is_required
              /\ model.fields[k].default = "PydanticUndefined"
       /\ \A k \in 1..Len(model.fields) :
            model.fields[k].name \notin Range(schema.required)
              => /\ ~model.fields[k].is_required
                 /\ model.fields[k].default = "None"

\* C7 amended: the fields of the contract are the declared properties; a
\* declared property is required, without default, if and only if its name is
\* in `required`, and is otherwise optional with default None; a name in
\* `required` that is not a declared property gives no field.
C7_DeclaredRequiredIff ==
  Translated
    => /\ Len(model.fields) = Len(schema.properties)
       /\ \A k \in 1..Len(model.fields) :
            LET f == model.fields[k]
            IN  /\ f.name = schema.properties[k].name
                /\ f.is_required <=> f.name \in Range(schema.required)
                /\ f.is_required => f.default = "PydanticUndefined"
                /\ ~f.is_required => f.default = "None"
       /\ \A r \in Range(schema.required) \ Declared :
            \A k \in 1..Len(model.fields) : model.fields[k].name # r

C7_Witness ==
  /\ Translated
  /\ schema.required = <<"keyword", "offset">>
  /\ Len(model.fields) = 2
  /\ model.fields[1].name = "keyword" /\ model.fields[1].is_required
  /\ model.fields[2].name = "limit" /\ model.fields[2].default = "None"

\* The kind the type table assigns to a declared type.
ExpectedKind ==
  [t \in DeclaredTypes |->
     IF t = "integer" THEN "int"
     ELSE IF t = "number" THEN "float"
     ELSE IF t = "boolean" THEN "bool"
     ELSE IF t = "array" THEN "List[Any]"
     ELSE IF t = "object" THEN "Dict[str, Any]"
     ELSE "str"]

\* C8: translation returns for every schema; each declared property gets the
\* kind the table gives its type (an unrecognised or absent type gives str);
\* a schema that is None, empty or without "properties", and a descriptor
\* without inputSchema, give the contract with no fields.
C8_TypeMappingTotal ==
  /\ Translated
       => IF schema.form = "object"
          THEN /\ Len(model.fields) = Len(schema.properties)
               /\ \A k \in 1..Len(model.fields) :
                    model.fields[k].kind = ExpectedKind[schema.properties[k].type]
          ELSE model.fields = <<>>
  /\ \A i \in 1..Len(langchain_tools) :
       ~tools_list[i].has_inputSchema => langchain_tools[i].args_schema.fields = <<>>

C8_Witness ==
  /\ Translated
  /\ Len(schema.properties) = 2
  /\ schema.properties[1].type = "number" /\ model.fields[1].kind = "float"
  /\ schema.properties[2].type = "uuid" /\ model.fields[2].kind = "str"

\* C9 as stated: no two entries of the catalog share a name.
C9_NoSharedNames == Distinct(Names(langchain_tools))

\* C9 amended: the catalog repeats a name exactly where the listing does, so
\* no two entries share a name whenever no two descriptors of the listing do.
C9_SharedNamesOnlyFromListing ==
  /\ Len(langchain_tools) = Len(tools_list)
  /\ \A i, j \in 1..Len(langchain_tools) :
       (langchain_tools[i].name = langchain_tools[j].name)
         <=> (tools_list[i].name = tools_list[j].name)

C9_Witness ==
  /\ Len(tools_list) = 2
  /\ Distinct(Names(tools_list))
  /\ Distinct(Names(langchain_tools))

\* C10: every adapter invocation (the coroutine, or func from a thread that
\* runs no event loop) issues exactly one session call, under the adapter's
\* own operation name and with the caller's arguments unchanged.
C10_ExactlyOneCallVerbatim ==
  (Invoked /\ (last.entry_point = "func" => ~last.in_loop))
    => last.calls = TheCall(langchain_tools[last.adapter].name, last.kwargs)

====
